---- MODULE Spec2Model ----
(***************************************************************************)
(* Link-check views of Studio (cms/djangoapps/contentstore/views/          *)
(* course_optimizer.py): link_check_handler, link_check_status_handler,    *)
(* _latest_task_status, _create_dto and _add_broken_link.                  *)
(*                                                                         *)
(* Four specifications share the definitions below.                        *)
(*   SpecDto     runs the loop of _create_dto one item at a time over      *)
(*               every bounded list of [block_id, link] items.             *)
(*   Spec        sends every kind of request to link_check_handler.        *)
(*   SpecPoll    lets two authors start checks of two courses and poll     *)
(*               link_check_status_handler while the tasks run.            *)
(*   SpecStatus  lets one author poll one course while its tasks stop      *)
(*               in every state, step count and artifact content.          *)
(***************************************************************************)
EXTENDS Integers, Sequences, FiniteSets, TLC

VARIABLES
    json_content,   \* _create_dto: the list of [block_id, link] items
    result,         \* _create_dto: the dict under construction
    pos,            \* _create_dto: number of items the for loop has consumed
    dto_pc,         \* _create_dto: "loop", "returned" or "raised"
    tasks,          \* UserTaskStatus rows and their artifacts, in order of creation
    STATUS_FILTERS, \* user_tasks_settings.USER_TASKS_STATUS_FILTERS
    response        \* what the view called in the last step answered

vars == <<json_content, result, pos, dto_pc, tasks, STATUS_FILTERS, response>>
dto_vars == <<json_content, result, pos, dto_pc>>
view_vars == <<tasks, STATUS_FILTERS, response>>

(***************************************************************************)
(* Bounds.                                                                 *)
(***************************************************************************)
MaxEntries == 3
MaxTasks == 2
MaxCompletedSteps == 2
MaxArtifactItems == 2

(***************************************************************************)
(* The content tree.  A usage key is (course_key, block_type, block_id);   *)
(* block_id alone does not identify a block: html "a" and problem "a" are  *)
(* two components of the same chapter.  No block_id is one of the keys     *)
(* display_name, url, broken_links that a node of the DTO also holds.      *)
(***************************************************************************)
Key(c, t, i) == [course_key |-> c, block_type |-> t, block_id |-> i]

CourseRoot == Key("c1", "course", "course")
Chapter == Key("c1", "chapter", "ch")
HtmlA == Key("c1", "html", "a")
ProblemA == Key("c1", "problem", "a")
HtmlZ == Key("c1", "html", "z")
HtmlGone == Key("c1", "html", "gone")
CourseRoot2 == Key("c2", "course", "course")

\* modulestore(): the blocks that exist; parent is <<>> (None) or <<usage key>>.
store ==
    (CourseRoot :> [display_name |-> "Course 1", parent |-> <<>>]) @@
    (Chapter :> [display_name |-> "Chapter", parent |-> <<CourseRoot>>]) @@
    (HtmlA :> [display_name |-> "Text A", parent |-> <<Chapter>>]) @@
    (ProblemA :> [display_name |-> "Problem A", parent |-> <<Chapter>>]) @@
    (HtmlZ :> [display_name |-> "Text Z", parent |-> <<Chapter>>]) @@
    (CourseRoot2 :> [display_name |-> "Course 2", parent |-> <<>>])

\* UsageKey.from_string on the block_id strings the scan writes.
UsageKeyFromString ==
    ("c1+type@course+block@course" :> CourseRoot) @@
    ("c1+type@chapter+block@ch" :> Chapter) @@
    ("c1+type@html+block@a" :> HtmlA) @@
    ("c1+type@problem+block@a" :> ProblemA) @@
    ("c1+type@html+block@z" :> HtmlZ) @@
    ("c1+type@html+block@gone" :> HtmlGone) @@
    ("c2+type@course+block@course" :> CourseRoot2)

\* str(usage_key)
Str(usage_key) == CHOOSE s \in DOMAIN UsageKeyFromString : UsageKeyFromString[s] = usage_key

usage_key_with_run(block_id) == UsageKeyFromString[block_id]

\* get_xblock: the block, or ItemNotFoundError for a key the store does not hold.
get_xblock(usage_key) ==
    IF usage_key \in DOMAIN store
    THEN [found |-> TRUE, block |-> usage_key]
    ELSE [found |-> FALSE, block |-> usage_key]

get_parent(block) == store[block].parent

Links == {"http://dead.example", "http://dead2.example"}

(***************************************************************************)
(* Python dict operations.                                                 *)
(***************************************************************************)
EmptyDict == <<>>

\* d[k] = v
SetItem(d, k, v) == [x \in DOMAIN d \cup {k} |-> IF x = k THEN v ELSE d[x]]

\* d.setdefault(k, default): the value found or stored under k
SetDefaultValue(d, k, default) == IF k \in DOMAIN d THEN d[k] ELSE default

(***************************************************************************)
(* _add_broken_link                                                        *)
(***************************************************************************)
RECURSIVE WalkUp(_)
\* while current: hierarchy.append(current); current = current.get_parent()
WalkUp(current) ==
    IF current = <<>> THEN <<>>
    ELSE <<current[1]>> \o WalkUp(get_parent(current[1]))

Hierarchy(block) == WalkUp(<<block>>)

Reversed(s) == [i \in 1..Len(s) |-> s[Len(s) + 1 - i]]

\* f'/course/{block.course_id}/editor/{block.category}/{block.location}'
EditorUrl(block) ==
    <<"/course/", block.course_key, "/editor/", block.block_type, "/", Str(block)>>

RECURSIVE Descend(_, _, _, _)
\* The for loop over reversed(hierarchy) and the two statements after it, on the
\* dict current_dict refers to; nested dicts are shared, so the caller sees the
\* change made below it.
Descend(current_dict, xblocks, block, link) ==
    IF xblocks = <<>>
    THEN LET with_url == SetItem(current_dict, "url", EditorUrl(block))
             links == SetDefaultValue(with_url, "broken_links", <<>>)
         IN  SetItem(with_url, "broken_links", Append(links, link))
    ELSE LET xblock == Head(xblocks)
             k == xblock.block_id
             child == SetDefaultValue(current_dict, k,
                          [display_name |-> store[xblock].display_name])
         IN  SetItem(current_dict, k, Descend(child, Tail(xblocks), block, link))

RECURSIVE DescendUrlInLoop(_, _, _, _)
\* The url assignment moved into the for loop: every node on the way gets one.
DescendUrlInLoop(current_dict, xblocks, block, link) ==
    IF xblocks = <<>>
    THEN LET links == SetDefaultValue(current_dict, "broken_links", <<>>)
         IN  SetItem(current_dict, "broken_links", Append(links, link))
    ELSE LET xblock == Head(xblocks)
             k == xblock.block_id
             child == SetDefaultValue(current_dict, k,
                          [display_name |-> store[xblock].display_name])
             with_url == SetItem(child, "url", EditorUrl(block))
         IN  SetItem(current_dict, k,
                     DescendUrlInLoop(with_url, Tail(xblocks), block, link))

add_broken_link_url_in_loop(res, block, link) ==
    DescendUrlInLoop(res, Reversed(Hierarchy(block)), block, link)

_add_broken_link(res, block, link) ==
    Descend(res, Reversed(Hierarchy(block)), block, link)

(***************************************************************************)
(* _create_dto                                                             *)
(***************************************************************************)
RECURSIVE CreateDtoLoop(_, _)
\* for item in json_content: ... ; return result
CreateDtoLoop(res, items) ==
    IF items = <<>> THEN [raised |-> FALSE, result |-> res]
    ELSE LET block_id == Head(items)[1]
             link == Head(items)[2]
             got == get_xblock(usage_key_with_run(block_id))
         IN  IF ~got.found THEN [raised |-> TRUE, result |-> EmptyDict]
             ELSE CreateDtoLoop(_add_broken_link(res, got.block, link), Tail(items))

RECURSIVE CreateDtoLoopSkipping(_, _)
\* The lookup failure caught inside the loop: the item is skipped.
CreateDtoLoopSkipping(res, items) ==
    IF items = <<>> THEN [raised |-> FALSE, result |-> res]
    ELSE LET block_id == Head(items)[1]
             link == Head(items)[2]
             got == get_xblock(usage_key_with_run(block_id))
         IN  IF ~got.found THEN CreateDtoLoopSkipping(res, Tail(items))
             ELSE CreateDtoLoopSkipping(_add_broken_link(res, got.block, link),
                                        Tail(items))

create_dto_skip_unresolved(content) == CreateDtoLoopSkipping(EmptyDict, content)

_create_dto(content) == CreateDtoLoop(EmptyDict, content)

(***************************************************************************)
(* SpecDto: the loop of _create_dto, one item per step.                    *)
(***************************************************************************)
BlockIdStrings == DOMAIN UsageKeyFromString \ {"c2+type@course+block@course"}

Items == {<<b, l>> : b \in BlockIdStrings, l \in Links}

ItemLists == UNION {[1..n -> Items] : n \in 0..MaxEntries}

NoResponse == [view |-> "none"]

InitDto ==
    /\ json_content \in ItemLists
    /\ result = EmptyDict
    /\ pos = 0
    /\ dto_pc = "loop"
    /\ tasks = <<>>
    /\ STATUS_FILTERS = <<>>
    /\ response = NoResponse

\* One iteration of the for loop: lines 218-221.
create_dto_item ==
    /\ dto_pc = "loop"
    /\ pos < Len(json_content)
    /\ LET block_id == json_content[pos + 1][1]
           link == json_content[pos + 1][2]
           got == get_xblock(usage_key_with_run(block_id))
       IN  IF got.found
           THEN /\ result' = _add_broken_link(result, got.block, link)
                /\ pos' = pos + 1
                /\ dto_pc' = "loop"
           ELSE /\ dto_pc' = "raised"
                /\ UNCHANGED <<result, pos>>
    /\ UNCHANGED <<json_content, view_vars>>

\* return result
create_dto_return ==
    /\ dto_pc = "loop"
    /\ pos = Len(json_content)
    /\ dto_pc' = "returned"
    /\ UNCHANGED <<json_content, result, pos, view_vars>>

NextDto == create_dto_item \/ create_dto_return

SpecDto == InitDto /\ [][NextDto]_vars

(***************************************************************************)
(* The views.                                                              *)
(***************************************************************************)
\* request.user: two course authors (admin is a superuser), a user without
\* author access, and a request that is not logged in.
RequestUsers == {"staff", "admin", "student", "anonymous"}
Superusers == {"admin"}

\* course_key_string: two courses, a well-formed key of no course, a malformed key.
CourseKeyStrings == {"c1", "c2", "c9", "not-a-key"}
ValidCourseKeys == {"c1", "c2", "c9"}
ExistingCourses == {"c1", "c2"}

Methods == {"GET", "POST", "PUT"}

has_course_author_access(user, course_key) ==
    \/ user = "admin"
    \/ user = "staff" /\ course_key \in ExistingCourses

\* modulestore().get_course(course_key) is not None
get_course_found(course_key) == course_key \in ExistingCourses

\* UserTaskStatus states
PENDING == "Pending"
IN_PROGRESS == "In Progress"
SUCCEEDED == "Succeeded"
FAILED == "Failed"
CANCELED == "Canceled"

\* The row check_broken_links.delay(request.user.id, course_key_string, ...) creates;
\* its name is CourseLinkCheckTask.generate_name of the course key.
NewTask(user, course_key_string) ==
    [name |-> course_key_string, user |-> user, state |-> PENDING,
     completed_steps |-> 0, artifact |-> <<>>, errors |-> <<>>]

Answer(view, user, course_key_string, method, outcome, body) ==
    [view |-> view, user |-> user, course |-> course_key_string, method |-> method,
     outcome |-> outcome, body |-> body]

\* A GET answered 200 {'LinkCheckStatus': 1} and a task enqueued before the method
\* is looked at.
link_check_handler_enqueue_first(user, course_key_string, method) ==
    LET answer(outcome, body) ==
            Answer("link_check_handler", user, course_key_string, method, outcome, body)
    IN  /\ Len(tasks) < MaxTasks
        /\ user # "anonymous"
        /\ method \in {"GET", "POST"}
        /\ course_key_string \in ValidCourseKeys
        /\ has_course_author_access(user, course_key_string)
        /\ get_course_found(course_key_string)
        /\ tasks' = Append(tasks, NewTask(user, course_key_string))
        /\ response' = answer("JsonResponse", [LinkCheckStatus |-> 1])
        /\ UNCHANGED <<dto_vars, STATUS_FILTERS>>

\* link_check_handler behind its decorators (lines 70-108).
link_check_handler(user, course_key_string, method) ==
    LET answer(outcome, body) ==
            Answer("link_check_handler", user, course_key_string, method, outcome, body)
    IN  /\ IF user = "anonymous"
           THEN response' = answer("redirect_to_login", EmptyDict) /\ tasks' = tasks
           ELSE IF method \notin {"GET", "POST"}
           THEN response' = answer("HttpResponseNotAllowed", EmptyDict) /\ tasks' = tasks
           ELSE IF course_key_string \notin ValidCourseKeys
           THEN response' = answer("Http404", EmptyDict) /\ tasks' = tasks
           ELSE IF ~has_course_author_access(user, course_key_string)
           THEN response' = answer("PermissionDenied", EmptyDict) /\ tasks' = tasks
           ELSE IF ~get_course_found(course_key_string)
           THEN response' = answer("Http404", EmptyDict) /\ tasks' = tasks
           ELSE IF method = "POST"
           THEN /\ Len(tasks) < MaxTasks
                /\ tasks' = Append(tasks, NewTask(user, course_key_string))
                /\ response' = answer("JsonResponse", [LinkCheckStatus |-> 1])
           ELSE response' = answer("HttpResponse406", EmptyDict) /\ tasks' = tasks
        /\ UNCHANGED <<dto_vars, STATUS_FILTERS>>

\* status_filter().filter_queryset(request, task_status, view_func) on row r:
\* StatusFilterBackend keeps every row for a superuser and a user's own rows
\* for anyone else.
FilterKeeps(status_filter, user, r) ==
    IF status_filter = "StatusFilterBackend"
    THEN user \in Superusers \/ r.user = user
    ELSE TRUE

Max(a, b) == IF a > b THEN a ELSE b

Min(a, b) == IF a < b THEN a ELSE b

SetMax(S) == CHOOSE x \in S : \A y \in S : y <= x

SetMin(S) == CHOOSE x \in S : \A y \in S : x <= y

\* The rows left after filter(name=name) and every filter of STATUS_FILTERS.
FilteredRows(user, course_key_string) ==
    {i \in 1..Len(tasks) :
        /\ tasks[i].name = course_key_string
        /\ \A f \in 1..Len(STATUS_FILTERS) : FilterKeeps(STATUS_FILTERS[f], user, tasks[i])}

\* order_by('created').first(): the oldest row instead of the latest.
latest_task_status_oldest_first(user, course_key_string) ==
    LET rows == FilteredRows(user, course_key_string)
    IN  IF rows = {} THEN 0 ELSE SetMin(rows)

\* _latest_task_status: the index of the row, 0 for None (lines 178-188).
_latest_task_status(user, course_key_string) ==
    LET rows == FilteredRows(user, course_key_string)
    IN  IF rows = {} THEN 0 ELSE SetMax(rows)

\* request.session: without or with a stored status for course c1.
Sessions == {EmptyDict, [link_check_status |-> [c1 |-> 1]]}

\* status = request.session["link_check_status"][course_key_string], 0 on KeyError
SessionStatus(session, course_key_string) ==
    IF /\ "link_check_status" \in DOMAIN session
       /\ course_key_string \in DOMAIN session["link_check_status"]
    THEN session["link_check_status"][course_key_string]
    ELSE 0

\* The texts of Error artifacts, and json.loads of them (ValueError: the text stays).
ErrorTexts == {"boom", "{\"detail\": \"boom\"}"}

JsonLoadsOrText(text) ==
    IF text = "{\"detail\": \"boom\"}" THEN [detail |-> "boom"] ELSE text

\* The status sent without the floor of -2.
failed_status_unclamped(completed_steps) == -(completed_steps + 1)

\* status = max(-(task_status.completed_steps + 1), -2)
FailedStatus(completed_steps) == Max(-(completed_steps + 1), -2)

\* status = min(task_status.completed_steps + 1, 2)
RunningStatus(completed_steps) == Min(completed_steps + 1, 2)

\* link_check_status_handler behind its decorators (lines 111-175).
link_check_status_handler(user, course_key_string, method, session) ==
    LET answer(outcome, body) ==
            Answer("link_check_status_handler", user, course_key_string, method,
                   outcome, body)
        t == _latest_task_status(user, course_key_string)
        task_status == tasks[t]
        dto == _create_dto(task_status.artifact)
        status ==
            IF t = 0 THEN SessionStatus(session, course_key_string)
            ELSE IF task_status.state = SUCCEEDED THEN 3
            ELSE IF task_status.state \in {FAILED, CANCELED}
            THEN FailedStatus(task_status.completed_steps)
            ELSE RunningStatus(task_status.completed_steps)
        with_status == [LinkCheckStatus |-> status]
        with_output ==
            IF t # 0 /\ task_status.state = SUCCEEDED /\ dto.result # EmptyDict
            THEN SetItem(with_status, "LinkCheckOutput", dto.result)
            ELSE with_status
        with_error ==
            IF /\ t # 0
               /\ task_status.state \in {FAILED, CANCELED}
               /\ task_status.errors # <<>>
            THEN SetItem(with_output, "LinkCheckError",
                         JsonLoadsOrText(task_status.errors[1]))
            ELSE with_output
    IN  /\ response' =
               IF method # "GET" THEN answer("HttpResponseNotAllowed", EmptyDict)
               ELSE IF user = "anonymous" THEN answer("redirect_to_login", EmptyDict)
               ELSE IF course_key_string \notin ValidCourseKeys
               THEN answer("Http404", EmptyDict)
               ELSE IF ~has_course_author_access(user, course_key_string)
               THEN answer("PermissionDenied", EmptyDict)
               ELSE IF t # 0 /\ task_status.state = SUCCEEDED /\ dto.raised
               THEN answer("ItemNotFoundError", EmptyDict)
               ELSE answer("JsonResponse", with_error)
        /\ UNCHANGED <<dto_vars, tasks, STATUS_FILTERS>>

(***************************************************************************)
(* The task workers: what the check_broken_links task and the user_tasks   *)
(* framework do to a row.  No view answers in such a step.                 *)
(***************************************************************************)
SetTask(i, row) ==
    /\ tasks' = [tasks EXCEPT ![i] = row]
    /\ response' = NoResponse
    /\ UNCHANGED <<dto_vars, STATUS_FILTERS>>

task_start(i) ==
    /\ tasks[i].state = PENDING
    /\ SetTask(i, [tasks[i] EXCEPT !.state = IN_PROGRESS])

task_step(i) ==
    /\ tasks[i].state = IN_PROGRESS
    /\ tasks[i].completed_steps < MaxCompletedSteps
    /\ SetTask(i, [tasks[i] EXCEPT !.completed_steps = @ + 1])

\* The task saves its BrokenLinks artifact and succeeds, all its steps done.
task_succeed(i, content) ==
    /\ tasks[i].state = IN_PROGRESS
    /\ SetTask(i, [tasks[i] EXCEPT !.state = SUCCEEDED, !.artifact = content,
                                   !.completed_steps = MaxCompletedSteps])

\* The task fails, with or without an Error artifact.
task_fail(i, errors) ==
    /\ tasks[i].state \in {PENDING, IN_PROGRESS}
    /\ SetTask(i, [tasks[i] EXCEPT !.state = FAILED, !.errors = errors])

task_cancel(i) ==
    /\ tasks[i].state \in {PENDING, IN_PROGRESS}
    /\ SetTask(i, [tasks[i] EXCEPT !.state = CANCELED])

\* The artifact of a scan of course_key: one broken link in one of its blocks.
ScanOf(course_key) ==
    IF course_key = "c1"
    THEN << <<"c1+type@html+block@a", "http://dead.example">> >>
    ELSE << <<"c2+type@course+block@course", "http://dead.example">> >>

InitViews ==
    /\ json_content = <<>>
    /\ result = EmptyDict
    /\ pos = 0
    /\ dto_pc = "loop"
    /\ tasks = <<>>
    /\ STATUS_FILTERS \in {<<>>, <<"StatusFilterBackend">>}
    /\ response = NoResponse

(***************************************************************************)
(* Spec: requests of every user, course key and method to                  *)
(* link_check_handler, and the tasks they enqueue starting or being        *)
(* canceled.                                                               *)
(***************************************************************************)
Init == InitViews

Next ==
    \/ \E user \in RequestUsers, course_key_string \in CourseKeyStrings,
          method \in Methods :
           link_check_handler(user, course_key_string, method)
    \/ \E i \in 1..Len(tasks) : task_start(i)
    \/ \E i \in 1..Len(tasks) : task_cancel(i)

Spec == Init /\ [][Next]_vars

(***************************************************************************)
(* SpecPoll: two authors start checks of two courses and poll them; each   *)
(* scan finds one broken link.                                             *)
(***************************************************************************)
Authors == {"staff", "admin"}

InitPoll == InitViews

NextPoll ==
    \/ \E user \in Authors, course_key_string \in ExistingCourses :
           link_check_handler(user, course_key_string, "POST")
    \/ \E user \in Authors, course_key_string \in ExistingCourses,
          session \in Sessions :
           link_check_status_handler(user, course_key_string, "GET", session)
    \/ \E i \in 1..Len(tasks) : task_start(i)
    \/ \E i \in 1..Len(tasks) : task_succeed(i, ScanOf(tasks[i].name))
    \/ \E i \in 1..Len(tasks) : task_fail(i, <<>>)
    \/ \E i \in 1..Len(tasks) : task_cancel(i)

SpecPoll == InitPoll /\ [][NextPoll]_vars

(***************************************************************************)
(* SpecStatus: an author has started one or two checks of a course and     *)
(* polls it; the scan may find any list of items, a task may stop after    *)
(* any number of steps and leave an error.                                 *)
(***************************************************************************)
ArtifactItems ==
    {<<"c1+type@html+block@a", "http://dead.example">>,
     <<"c1+type@html+block@gone", "http://dead.example">>}

ArtifactLists == UNION {[1..n -> ArtifactItems] : n \in 0..MaxArtifactItems}

ErrorArtifacts == {<<>>} \cup {<<text>> : text \in ErrorTexts}

InitStatus ==
    /\ json_content = <<>>
    /\ result = EmptyDict
    /\ pos = 0
    /\ dto_pc = "loop"
    /\ tasks \in {<<NewTask("staff", "c1")>>,
                  <<NewTask("staff", "c1"), NewTask("staff", "c1")>>}
    /\ STATUS_FILTERS \in {<<>>, <<"StatusFilterBackend">>}
    /\ response = NoResponse

NextStatus ==
    \/ \E user \in {"staff", "student"}, method \in {"GET", "POST"},
          session \in Sessions :
           link_check_status_handler(user, "c1", method, session)
    \/ \E i \in 1..Len(tasks) : task_start(i)
    \/ \E i \in 1..Len(tasks) : task_step(i)
    \/ \E i \in 1..Len(tasks), content \in ArtifactLists : task_succeed(i, content)
    \/ \E i \in 1..Len(tasks), errors \in ErrorArtifacts : task_fail(i, errors)
    \/ \E i \in 1..Len(tasks) : task_cancel(i)

SpecStatus == InitStatus /\ [][NextStatus]_vars

(***************************************************************************)
(* Reading the DTO.                                                        *)
(***************************************************************************)
FieldKeys == {"display_name", "url", "broken_links"}

RECURSIVE HasPath(_, _)
HasPath(d, path) ==
    \/ path = <<>>
    \/ /\ Head(path) \in DOMAIN d
       /\ HasPath(d[Head(path)], Tail(path))

RECURSIVE NodeAt(_, _)
NodeAt(d, path) == IF path = <<>> THEN d ELSE NodeAt(d[Head(path)], Tail(path))

RECURSIVE PathsOf(_)
\* The paths of all nodes below d: the keys that are not fields are child nodes.
PathsOf(d) ==
    UNION {{<<k>>} \cup {<<k>> \o p : p \in PathsOf(d[k])} : k \in DOMAIN d \ FieldKeys}

ChildKeys(node) == DOMAIN node \ FieldKeys

\* The block of the i-th item; every consumed item resolved.
BlockOf(i) == usage_key_with_run(json_content[i][1])

\* Root-most ancestor first, the block itself last.
Chain(block) == Reversed(Hierarchy(block))

KeysOf(chain) == [j \in 1..Len(chain) |-> chain[j].block_id]

\* The path of the node that receives the links of block.
TerminalPath(block) == KeysOf(Chain(block))

RECURSIVE LinksOf(_, _)
\* The links of the first n items whose block is B, in input order.
LinksOf(B, n) ==
    IF n = 0 THEN <<>>
    ELSE IF BlockOf(n) = B THEN Append(LinksOf(B, n - 1), json_content[n][2])
         ELSE LinksOf(B, n - 1)

(***************************************************************************)
(* Claims about _create_dto and _add_broken_link (SpecDto).                *)
(***************************************************************************)

\* C1: for every terminal block B, the broken_links of B's node are the links of
\* the items whose block is B, in input order and with duplicates kept.
C1_OrderPreserved ==
    \A i \in 1..pos :
        LET B == BlockOf(i)
            p == TerminalPath(B)
        IN  /\ HasPath(result, p)
            /\ "broken_links" \in DOMAIN NodeAt(result, p)
            /\ NodeAt(result, p)["broken_links"] = LinksOf(B, pos)

\* C2: two items whose terminal blocks share the ancestor A and differ below A
\* leave exactly one node for A, with one child subtree per terminal block.
C2_SharedAncestorMerged ==
    \A i, j \in 1..pos :
        LET h1 == Chain(BlockOf(i))
            h2 == Chain(BlockOf(j))
        IN  \A k \in 1..(Min(Len(h1), Len(h2)) - 1) :
                (SubSeq(h1, 1, k) = SubSeq(h2, 1, k) /\ h1[k + 1] # h2[k + 1]) =>
                    LET a == KeysOf(SubSeq(h1, 1, k))
                        c1 == KeysOf(SubSeq(h1, 1, k + 1))
                        c2 == KeysOf(SubSeq(h2, 1, k + 1))
                    IN  /\ HasPath(result, c1)
                        /\ HasPath(result, c2)
                        /\ c1 # c2
                        /\ Cardinality({p \in PathsOf(result) :
                               NodeAt(result, p)["display_name"]
                                   = store[h1[k]].display_name}) = 1
                        /\ NodeAt(result, a)["display_name"] = store[h1[k]].display_name

\* C3: the url of a terminal node is the editor url of the very block whose
\* links its broken_links list holds.
C3_UrlOfOwnBlock ==
    \A i \in 1..pos :
        LET B == BlockOf(i)
            p == TerminalPath(B)
        IN  /\ HasPath(result, p)
            /\ "url" \in DOMAIN NodeAt(result, p)
            /\ NodeAt(result, p)["url"] = EditorUrl(B)

C5_DepthExcludesRoot ==
    \A i \in 1..pos :
        LET B == BlockOf(i)
        IN  \E p \in PathsOf(result) :
                /\ Len(p) = Len(Hierarchy(B)) - 1
                /\ p[Len(p)] = B.block_id
                /\ "broken_links" \in DOMAIN NodeAt(result, p)

(***************************************************************************)
(* Claims about link_check_status_handler (SpecStatus, SpecPoll).          *)
(***************************************************************************)
\* The last step was a status poll that got past the decorators and the
\* permission check.
Polled ==
    /\ response.view = "link_check_status_handler"
    /\ response.outcome \in {"JsonResponse", "ItemNotFoundError"}

\* The row the poll read, 0 for none.
PolledTask == _latest_task_status(response.user, response.course)

HasUnresolvable(content) ==
    \E n \in 1..Len(content) : usage_key_with_run(content[n][1]) \notin DOMAIN store

\* C6: an artifact with an item whose block cannot be resolved, at any position,
\* makes the build fail with the lookup error: no report is returned and the poll
\* sends no response holding a LinkCheckOutput.
C6_NoPartialReport ==
    (/\ Polled
     /\ PolledTask # 0
     /\ tasks[PolledTask].state = SUCCEEDED
     /\ HasUnresolvable(tasks[PolledTask].artifact))
    => /\ response.outcome = "ItemNotFoundError"
       /\ "LinkCheckOutput" \notin DOMAIN response.body
       /\ "LinkCheckStatus" \notin DOMAIN response.body

\* C6 witness: the lookup fails at the second item, after the first was folded in.
C6_Witness ==
    /\ Polled
    /\ PolledTask # 0
    /\ tasks[PolledTask].state = SUCCEEDED
    /\ tasks[PolledTask].artifact =
           << <<"c1+type@html+block@a", "http://dead.example">>,
              <<"c1+type@html+block@gone", "http://dead.example">> >>
    /\ response.outcome = "ItemNotFoundError"

PolledStopped ==
    /\ Polled
    /\ PolledTask # 0
    /\ tasks[PolledTask].state \in {FAILED, CANCELED}

C8_ReportWithStatus3 ==
    (Polled /\ response.outcome = "JsonResponse") =>
        /\ (PolledTask # 0 /\ tasks[PolledTask].state = SUCCEEDED) =>
               /\ response.body["LinkCheckStatus"] = 3
               /\ "LinkCheckOutput" \in DOMAIN response.body
        /\ "LinkCheckOutput" \in DOMAIN response.body =>
               response.body["LinkCheckStatus"] = 3

(***************************************************************************)
(* Claims about link_check_handler (Spec).                                 *)
(***************************************************************************)
\* A request that passes every check of link_check_handler and is a POST.
AuthorizedPost(r) ==
    /\ r.user # "anonymous"
    /\ r.method = "POST"
    /\ r.course \in ValidCourseKeys
    /\ has_course_author_access(r.user, r.course)
    /\ get_course_found(r.course)

RowsOfCourse(course_key_string) ==
    {i \in 1..Len(tasks) : tasks[i].name = course_key_string}

\* The rows of the course that the configured filters show to user.
VisibleRows(user, course_key_string) ==
    {i \in RowsOfCourse(course_key_string) :
        \/ STATUS_FILTERS = <<>>
        \/ user \in Superusers
        \/ tasks[i].user = user}

\* The answer r is the one the state of row calls for.
ReportsRow(r, row) ==
    IF row.state = SUCCEEDED
    THEN /\ r.outcome = "JsonResponse"
         /\ r.body["LinkCheckStatus"] = 3
         /\ "LinkCheckOutput" \in DOMAIN r.body
         /\ r.body["LinkCheckOutput"] = _create_dto(row.artifact).result
    ELSE /\ r.outcome = "JsonResponse"
         /\ "LinkCheckOutput" \notin DOMAIN r.body
         /\ IF row.state \in {FAILED, CANCELED}
            THEN r.body["LinkCheckStatus"] < 0
            ELSE r.body["LinkCheckStatus"] \in {1, 2}

====
